---- MODULE Spec2Model ----
(***************************************************************************)
(* Model of the dynamic form application: the App shell, the LoginForm     *)
(* (Auth Gate), the DynamicForm (Form Orchestrator with its validation),   *)
(* the FormSection (Section Controller) and the DynamicField (Field        *)
(* Renderer), with the two remote calls createUser and getForm.            *)
(*                                                                         *)
(* JavaScript values are modelled as tagged records: a string s is         *)
(* [str |-> s], an array a is [arr |-> a], a boolean b is [bool |-> b] and *)
(* undefined is [undef |-> TRUE].  An optional property of an object is a  *)
(* key that is or is not in the DOMAIN of the record.  The text typed in   *)
(* the login inputs is a sequence of characters, because trim() looks at   *)
(* the characters.                                                         *)
(***************************************************************************)
EXTENDS Integers, Sequences, FiniteSets, TLC

\* ------------------------------------------------------------------ bounds

\* Longest string a user types into a text-like field.
MaxStrLen == 4

\* Cap on create-user calls in flight (the login button allows one).
MaxPending == 2

\* --------------------------------------------------------------- JS values

StrV(s) == [str |-> s]
ArrV(a) == [arr |-> a]
BoolV(b) == [bool |-> b]
Undefined == [undef |-> TRUE]

IsString(v) == "str" \in DOMAIN v
IsArray(v) == "arr" \in DOMAIN v
IsBoolean(v) == "bool" \in DOMAIN v

\* JavaScript truthiness of a value: undefined, '' and false are falsy; every
\* array, the empty one included, is truthy.
Truthy(v) ==
  IF IsString(v) THEN v.str # ""
  ELSE IF IsBoolean(v) THEN v.bool
  ELSE IsArray(v)

\* obj[key] of a plain object: undefined when the key is absent.
Lookup(obj, key) == IF key \in DOMAIN obj THEN obj[key] ELSE Undefined

\* The object with no keys.
EmptyObject == <<>>

\* { ...obj, [key]: value }
WithKey(obj, key, value) ==
  [k \in DOMAIN obj \cup {key} |-> IF k = key THEN value ELSE obj[k]]

\* A copy of obj after `delete copy[key]`.
WithoutKey(obj, key) == [k \in DOMAIN obj \ {key} |-> obj[k]]

\* null, for a state that holds an object or null.
Null == [null |-> TRUE]

\* null, for a state that holds a string or null.
NullString == "<null>"

Range(seq) == {seq[i] : i \in 1..Len(seq)}

\* Array.prototype.includes
Includes(a, x) == \E i \in 1..Len(a) : a[i] = x

\* a.filter(v => v !== x)
RECURSIVE FilterOut(_, _)
FilterOut(a, x) ==
  IF a = <<>> THEN <<>>
  ELSE IF Head(a) # x THEN <<Head(a)>> \o FilterOut(Tail(a), x)
  ELSE FilterOut(Tail(a), x)

\* a.join(sep) of an array of strings
RECURSIVE Join(_, _)
Join(a, sep) ==
  IF a = <<>> THEN ""
  ELSE IF Len(a) = 1 THEN a[1]
  ELSE a[1] \o sep \o Join(Tail(a), sep)

\* ------------------------------------------------------------ typed strings

TypedChars == <<"A", "l", "a", "n">>

\* The string of the first n characters a user types ("A", "Al", "Ala", ...).
RECURSIVE Typed(_)
Typed(n) ==
  IF n = 0 THEN ""
  ELSE Typed(n - 1) \o (IF n <= Len(TypedChars) THEN TypedChars[n] ELSE "x")

Strings == {Typed(n) : n \in 0..MaxStrLen}

\* ------------------------------------------------------------------ schemas
\* The form schemas the remote service returns in this model.  A field is a
\* record whose optional properties (minLength, maxLength, options,
\* validation) are present or not, as in the FormField type.

FieldName ==
  [fieldId |-> "name", label |-> "Name", type |-> "text", required |-> TRUE,
   minLength |-> 2, maxLength |-> 3]

FieldHobbies ==
  [fieldId |-> "hobbies", label |-> "Hobbies", type |-> "checkbox",
   required |-> FALSE,
   options |-> <<[value |-> "chess", label |-> "Chess"],
                 [value |-> "golf", label |-> "Golf"],
                 [value |-> "yoga", label |-> "Yoga"]>>]

FieldAgree ==
  [fieldId |-> "agree", label |-> "I agree", type |-> "checkbox",
   required |-> TRUE, validation |-> [message |-> "You must agree"]]

FieldNick ==
  [fieldId |-> "nick", label |-> "Nickname", type |-> "textarea",
   required |-> FALSE, minLength |-> 2]

FieldCity ==
  [fieldId |-> "city", label |-> "City", type |-> "dropdown",
   required |-> TRUE, validation |-> [message |-> "Please pick a city"],
   options |-> <<[value |-> "Pune", label |-> "Pune"],
                 [value |-> "Agra", label |-> "Agra"]>>]

FieldLangs ==
  [fieldId |-> "langs", label |-> "Languages", type |-> "checkbox",
   required |-> TRUE, validation |-> [message |-> ""],
   options |-> <<[value |-> "en", label |-> "English"],
                 [value |-> "hi", label |-> "Hindi"]>>]

FieldGender ==
  [fieldId |-> "gender", label |-> "Gender", type |-> "radio",
   required |-> TRUE, validation |-> EmptyObject,
   options |-> <<[value |-> "F", label |-> "Female"],
                 [value |-> "M", label |-> "Male"]>>]

FieldCode ==
  [fieldId |-> "code", label |-> "Code", type |-> "tel", required |-> FALSE,
   minLength |-> 0, maxLength |-> 0]

FieldPhoto ==
  [fieldId |-> "photo", label |-> "Photo", type |-> "file",
   required |-> FALSE]

FieldEmail ==
  [fieldId |-> "email", label |-> "Email", type |-> "email",
   required |-> TRUE]

\* Two sections; the first is the one of the "name, minLength 2" scenario.
SchemaTwoSections ==
  [formTitle |-> "Registration",
   sections |-> <<[sectionId |-> "personal", title |-> "Personal",
                   fields |-> <<FieldName>>],
                  [sectionId |-> "extras", title |-> "Extras",
                   fields |-> <<FieldHobbies, FieldAgree>>]>>]

SchemaOneSection ==
  [formTitle |-> "Contact",
   sections |-> <<[sectionId |-> "contact", title |-> "Contact",
                   fields |-> <<FieldNick, FieldCity, FieldLangs>>]>>]

SchemaThreeSections ==
  [formTitle |-> "Survey",
   sections |-> <<[sectionId |-> "s1", title |-> "One",
                   fields |-> <<FieldGender>>],
                  [sectionId |-> "s2", title |-> "Two",
                   fields |-> <<FieldCode>>],
                  [sectionId |-> "s3", title |-> "Three",
                   fields |-> <<FieldPhoto, FieldEmail>>]>>]

SchemaNoSections == [formTitle |-> "Empty", sections |-> <<>>]

Schemas ==
  {SchemaTwoSections, SchemaOneSection, SchemaThreeSections, SchemaNoSections}

\* A JSON body of get-form without the `form` property.
MalformedFormResponse == [message |-> "no form for this roll number"]

\* All fields of a schema, in schema order.
RECURSIVE FlattenFields(_)
FlattenFields(sections) ==
  IF sections = <<>> THEN <<>>
  ELSE Head(sections).fields \o FlattenFields(Tail(sections))

AllFields(schema) == Range(FlattenFields(schema.sections))

\* ------------------------------------------------------------- login inputs

\* What a user types into the roll number and name inputs.
LoginInputs == {<<>>, <<" ">>, <<"7">>, <<" ", "7">>}

IsWhitespace(c) == c = " "

\* String.prototype.trim
RECURSIVE TrimStart(_)
TrimStart(s) ==
  IF s # <<>> /\ IsWhitespace(Head(s)) THEN TrimStart(Tail(s)) ELSE s

RECURSIVE TrimEnd(_)
TrimEnd(s) ==
  IF s # <<>> /\ IsWhitespace(s[Len(s)]) THEN TrimEnd(SubSeq(s, 1, Len(s) - 1))
  ELSE s

Trim(s) == TrimEnd(TrimStart(s))

\* LoginForm's useState<User>({ rollNumber: '', name: '' })
InitialLoginUser == [rollNumber |-> <<>>, name |-> <<>>]

\* The basic validation of LoginForm.handleSubmit:
\* !user.rollNumber.trim() || !user.name.trim()
LoginIsBlank(u) == Trim(u.rollNumber) = <<>> \/ Trim(u.name) = <<>>

BothRequiredMessage == "Both Roll Number and Name are required"
GenericLoginError == "An error occurred during login. Please try again."

\* ------------------------------------------------------------- create-user
\* What the fetch of create-user can do: answer with a status and a JSON
\* body (with or without a message), or reject (network failure, or a body
\* that is not JSON), which throws an Error inside createUser.

CreateUserResponses ==
  { [kind |-> "response", ok |-> TRUE, data |-> [message |-> "Welcome"]],
    [kind |-> "response", ok |-> TRUE, data |-> EmptyObject],
    [kind |-> "response", ok |-> FALSE, data |-> [message |-> "User already exists"]],
    [kind |-> "response", ok |-> FALSE, data |-> EmptyObject],
    [kind |-> "throws", isError |-> TRUE, message |-> "Failed to fetch"] }

\* data.message || fallback
MessageOr(data, fallback) ==
  IF "message" \in DOMAIN data /\ data.message # "" THEN data.message
  ELSE fallback

\* createUser's catch block: every throw becomes a failure result.
CreateUserCatch(thrown) ==
  [threw |-> FALSE, success |-> FALSE,
   message |-> IF thrown.isError THEN thrown.message
               ELSE "An unknown error occurred"]

\* createUser: the result the promise resolves to (threw = FALSE), or a
\* rejection (threw = TRUE).
CreateUser(r) ==
  IF r.kind = "throws" THEN CreateUserCatch(r)
  ELSE IF ~r.ok
    THEN CreateUserCatch([isError |-> TRUE,
                          message |-> MessageOr(r.data, "Failed to create user")])
  ELSE [threw |-> FALSE, success |-> TRUE,
        message |-> MessageOr(r.data, "User created successfully")]

\* ---------------------------------------------------------------- get-form

GetFormOutcomes ==
  { [kind |-> "response", ok |-> TRUE, data |-> [form |-> sch]] : sch \in Schemas }
  \cup { [kind |-> "response", ok |-> TRUE, data |-> MalformedFormResponse],
         [kind |-> "response", ok |-> FALSE],
         [kind |-> "throws"] }

\* getForm: returns the JSON body, or throws (fetch rejected, status not ok).
GetForm(o) ==
  IF o.kind = "throws" THEN [threw |-> TRUE]
  ELSE IF ~o.ok THEN [threw |-> TRUE]
  ELSE [threw |-> FALSE, data |-> o.data]

FailedToLoadMessage == "Failed to load the form. Please try again later."

\* Mutant of InitialValue: every field starts with the empty string.
InitialValueAlwaysString(field) == StrV("")

\* The initial value of one field (fetchFormData).
InitialValue(field) ==
  IF field.type = "checkbox" /\ "options" \in DOMAIN field THEN ArrV(<<>>)
  ELSE IF field.type = "checkbox" /\ ~("options" \in DOMAIN field) THEN BoolV(FALSE)
  ELSE StrV("")

\* initialValues of fetchFormData: one entry per field, a later field of the
\* same fieldId overwriting an earlier one.
RECURSIVE InitialValuesOf(_, _)
InitialValuesOf(fields, acc) ==
  IF fields = <<>> THEN acc
  ELSE InitialValuesOf(Tail(fields),
                       WithKey(acc, Head(fields).fieldId, InitialValue(Head(fields))))

InitialValues(schema) == InitialValuesOf(FlattenFields(schema.sections), EmptyObject)

\* --------------------------------------------------------------- validation

RequiredMessage == "This field is required"

\* field.validation?.message || 'This field is required'
ValidationMessage(field) ==
  IF "validation" \in DOMAIN field THEN MessageOr(field.validation, RequiredMessage)
  ELSE RequiredMessage

\* Mutant of IsEmptyValue: the empty array is not taken as empty.
IsEmptyValueNoArray(value) ==
  \/ value = Undefined
  \/ (IsString(value) /\ value.str = "")

\* The emptiness test of a required field.
IsEmptyValue(value) ==
  \/ value = Undefined
  \/ (IsString(value) /\ value.str = "")
  \/ (IsArray(value) /\ Len(value.arr) = 0)

\* Mutant of HasBound: a bound of 0 is checked like any other
\* (field.minLength !== undefined).
HasBoundPresent(field, key) == key \in DOMAIN field

\* field.minLength && ... : the bound is present and not 0.
HasBound(field, key) == key \in DOMAIN field /\ field[key] # 0

\* validateField: '' when the field passes, else the message.
ValidateField(field, values) ==
  LET value == Lookup(values, field.fieldId) IN
  IF field.required /\ IsEmptyValue(value) THEN ValidationMessage(field)
  ELSE IF value = Undefined \/ (IsString(value) /\ value.str = "") THEN ""
  ELSE IF HasBound(field, "minLength") /\ IsString(value)
          /\ Len(value.str) < field.minLength
    THEN "Minimum length is " \o ToString(field.minLength) \o " characters"
  ELSE IF HasBound(field, "maxLength") /\ IsString(value)
          /\ Len(value.str) > field.maxLength
    THEN "Maximum length is " \o ToString(field.maxLength) \o " characters"
  ELSE ""

\* The forEach of validateSection over the section's fields: acc holds
\* newErrors and isValid.
RECURSIVE ValidateFields(_, _, _)
ValidateFields(fields, values, acc) ==
  IF fields = <<>> THEN acc
  ELSE LET errorMessage == ValidateField(Head(fields), values) IN
       ValidateFields(Tail(fields), values,
                      IF errorMessage # ""
                        THEN [newErrors |-> WithKey(acc.newErrors,
                                                    Head(fields).fieldId,
                                                    errorMessage),
                              isValid |-> FALSE]
                        ELSE acc)

\* validateSection: the error map it sets and the boolean it returns.
ValidateSection(schema, sectionIndex, values) ==
  ValidateFields(schema.sections[sectionIndex + 1].fields, values,
                 [newErrors |-> EmptyObject, isValid |-> TRUE])

\* -------------------------------------------------------------------- state

VARIABLES
  appUser,              \* App: user (Null or the logged-in User)
  loginUser,            \* LoginForm: user (the two inputs)
  loginIsLoading,       \* LoginForm: isLoading
  loginError,           \* LoginForm: error (NullString or a message)
  createPending,        \* create-user calls in flight, each with the user
                        \* its handleSubmit closed over
  formData,             \* DynamicForm: formData (Null or the response body)
  isLoading,            \* DynamicForm: isLoading
  error,                \* DynamicForm: error (NullString or a message)
  currentSectionIndex,  \* DynamicForm: currentSectionIndex
  formValues,           \* DynamicForm: formValues
  formErrors,           \* DynamicForm: formErrors
  showSubmissionModal,  \* DynamicForm: showSubmissionModal
  fetchPending,         \* the get-form call of the mount effect is in flight
  crashed               \* a render threw: React unmounted the whole tree

loginVars == <<loginUser, loginIsLoading, loginError>>
formVars ==
  <<formData, isLoading, error, currentSectionIndex, formValues, formErrors,
    showSubmissionModal>>
vars == <<appUser, loginVars, createPending, formVars, fetchPending, crashed>>

\* The state a freshly mounted LoginForm starts with.
LoginMounted ==
  /\ loginUser' = InitialLoginUser
  /\ loginIsLoading' = FALSE
  /\ loginError' = NullString

\* The state a freshly mounted DynamicForm starts with (its useState calls).
FormMounted ==
  /\ formData' = Null
  /\ isLoading' = TRUE
  /\ error' = NullString
  /\ currentSectionIndex' = 0
  /\ formValues' = EmptyObject
  /\ formErrors' = EmptyObject
  /\ showSubmissionModal' = FALSE

Init ==
  /\ appUser = Null
  /\ loginUser = InitialLoginUser
  /\ loginIsLoading = FALSE
  /\ loginError = NullString
  /\ createPending = <<>>
  /\ formData = Null
  /\ isLoading = TRUE
  /\ error = NullString
  /\ currentSectionIndex = 0
  /\ formValues = EmptyObject
  /\ formErrors = EmptyObject
  /\ showSubmissionModal = FALSE
  /\ fetchPending = FALSE
  /\ crashed = FALSE

\* ------------------------------------------------------------------- render

\* What is on screen: App picks LoginForm or DynamicForm, and DynamicForm
\* returns its loading view, its error view, nothing, or the form, in that
\* order.
View ==
  IF crashed THEN "Crashed"
  ELSE IF appUser = Null THEN "Login"
  ELSE IF isLoading THEN "Loading"
  ELSE IF error # NullString /\ error # "" THEN "Failed"
  ELSE IF formData = Null THEN "Blank"
  ELSE "Ready"

\* Rendering the form reads currentSection.title in FormSection, which throws
\* when the section is undefined.
RenderThrows(user, loading, err, data, index) ==
  /\ user # Null
  /\ ~loading
  /\ err = NullString
  /\ data # Null
  /\ ~(index >= 0 /\ index < Len(data.form.sections))

CurrentSection == formData.form.sections[currentSectionIndex + 1]

TotalSections == Len(formData.form.sections)

IsLast == currentSectionIndex = TotalSections - 1

\* ---------------------------------------------------------------- LoginForm

\* Mutant of LoginSubmitEnabled: the login button is never disabled.
LoginSubmitAlwaysEnabled == TRUE

\* The login button is the form's only submit control: disabled={isLoading}.
LoginSubmitEnabled == ~loginIsLoading

\* LoginForm.handleChange: one input of the login form changes.
LoginHandleChange(name, value) ==
  /\ View = "Login"
  /\ loginUser' = [loginUser EXCEPT ![name] = value]
  /\ UNCHANGED <<appUser, loginIsLoading, loginError, createPending, formVars,
                 fetchPending, crashed>>

\* LoginForm.handleSubmit up to its await: the validation, and the call of
\* createUser with the user of this render.
LoginHandleSubmit ==
  /\ View = "Login"
  /\ LoginSubmitEnabled
  /\ Len(createPending) < MaxPending
  /\ IF LoginIsBlank(loginUser)
       THEN /\ loginError' = BothRequiredMessage
            /\ UNCHANGED <<loginIsLoading, createPending>>
       ELSE /\ loginError' = NullString
            /\ loginIsLoading' = TRUE
            /\ createPending' = Append(createPending, [user |-> loginUser])
  /\ UNCHANGED <<appUser, loginUser, formVars, fetchPending, crashed>>

\* handleSubmit after its await: call i of create-user completes with r.
\* On success App.handleLoginSuccess sets the user, which unmounts LoginForm
\* and mounts DynamicForm, whose effect starts the get-form call.
LoginCreateUserDone(i, r) ==
  /\ i \in 1..Len(createPending)
  /\ createPending' = SubSeq(createPending, 1, i - 1)
                        \o SubSeq(createPending, i + 1, Len(createPending))
  /\ LET result == CreateUser(r) IN
     IF View # "Login"
       THEN UNCHANGED <<appUser, loginVars, formVars, fetchPending>>
     ELSE IF result.threw
       THEN /\ loginError' = GenericLoginError
            /\ loginIsLoading' = FALSE
            /\ UNCHANGED <<appUser, loginUser, formVars, fetchPending>>
     ELSE IF result.success
       THEN /\ appUser' = createPending[i].user
            /\ LoginMounted
            /\ FormMounted
            /\ fetchPending' = TRUE
     ELSE /\ loginError' = result.message
          /\ loginIsLoading' = FALSE
          /\ UNCHANGED <<appUser, loginUser, formVars, fetchPending>>
  /\ UNCHANGED crashed

\* -------------------------------------------------------------- DynamicForm

\* fetchFormData after its await: the get-form call completes with o.
FetchFormDataDone(o) ==
  /\ View = "Loading"
  /\ fetchPending
  /\ fetchPending' = FALSE
  /\ LET got == GetForm(o) IN
     IF got.threw
       THEN /\ error' = FailedToLoadMessage
            /\ UNCHANGED <<formData, formValues>>
     ELSE IF ~("form" \in DOMAIN got.data)
       THEN /\ formData' = got.data
            /\ error' = FailedToLoadMessage
            /\ UNCHANGED formValues
     ELSE /\ formData' = got.data
          /\ formValues' = InitialValues(got.data.form)
          /\ UNCHANGED error
  /\ isLoading' = FALSE
  /\ UNCHANGED <<appUser, loginVars, createPending, currentSectionIndex,
                 formErrors, showSubmissionModal>>
  /\ crashed' = RenderThrows(appUser', isLoading', error', formData',
                             currentSectionIndex')

\* Mutant of HandleFieldChange: the error is cleared only when the new value
\* is not empty.
HandleFieldChangeClearIfFilled(fieldId, value) ==
  /\ formValues' = WithKey(formValues, fieldId, value)
  /\ formErrors' = IF fieldId \in DOMAIN formErrors /\ Truthy(value)
                     THEN WithoutKey(formErrors, fieldId)
                     ELSE formErrors
  /\ UNCHANGED <<appUser, loginVars, createPending, formData, isLoading, error,
                 currentSectionIndex, showSubmissionModal, fetchPending, crashed>>

\* handleFieldChange: the new formValues and formErrors.
HandleFieldChange(fieldId, value) ==
  /\ formValues' = WithKey(formValues, fieldId, value)
  /\ formErrors' = IF fieldId \in DOMAIN formErrors /\ formErrors[fieldId] # ""
                     THEN WithoutKey(formErrors, fieldId)
                     ELSE formErrors
  /\ UNCHANGED <<appUser, loginVars, createPending, formData, isLoading, error,
                 currentSectionIndex, showSubmissionModal, fetchPending, crashed>>

\* The value FormSection passes to DynamicField:
\* values[id] || (type === 'checkbox' && !options ? false : options ? [] : '')
DisplayValue(field) ==
  LET v == Lookup(formValues, field.fieldId) IN
  IF Truthy(v) THEN v
  ELSE IF field.type = "checkbox" /\ ~("options" \in DOMAIN field) THEN BoolV(FALSE)
  ELSE IF "options" \in DOMAIN field THEN ArrV(<<>>)
  ELSE StrV("")

OptionValues(field) ==
  IF "options" \in DOMAIN field
    THEN {field.options[i].value : i \in 1..Len(field.options)}
    ELSE {}

\* The strings the control of a field can emit through handleChange.
EmittedStrings(field) ==
  IF field.type \in {"text", "tel", "email", "date", "textarea"} THEN Strings
  ELSE IF field.type = "dropdown" THEN {""} \cup OptionValues(field)
  ELSE IF field.type = "radio" THEN OptionValues(field)
  ELSE {}

\* Mutant of ToggleOption: the option is appended without looking whether it
\* is already selected.
ToggleOptionAlwaysAppend(currentValues, optionValue) ==
  Append(currentValues, optionValue)

\* The new array of handleCheckboxGroupChange.
ToggleOption(currentValues, optionValue) ==
  IF Includes(currentValues, optionValue)
    THEN FilterOut(currentValues, optionValue)
    ELSE Append(currentValues, optionValue)

\* DynamicField.handleChange of an input, textarea, select or radio.
FieldInputChange(field, s) ==
  /\ View = "Ready"
  /\ field \in Range(CurrentSection.fields)
  /\ s \in EmittedStrings(field)
  /\ HandleFieldChange(field.fieldId, StrV(s))

\* DynamicField.handleChange of the single checkbox: emits target.checked.
FieldCheckboxChange(field) ==
  /\ View = "Ready"
  /\ field \in Range(CurrentSection.fields)
  /\ field.type = "checkbox"
  /\ ~("options" \in DOMAIN field)
  /\ HandleFieldChange(field.fieldId, BoolV(~Truthy(DisplayValue(field))))

\* DynamicField.handleCheckboxGroupChange of one option of a checkbox group.
FieldCheckboxGroupChange(field, optionValue) ==
  /\ View = "Ready"
  /\ field \in Range(CurrentSection.fields)
  /\ field.type = "checkbox"
  /\ optionValue \in OptionValues(field)
  /\ LET value == DisplayValue(field)
         currentValues == IF IsArray(value) THEN value.arr ELSE <<>>
     IN HandleFieldChange(field.fieldId, ArrV(ToggleOption(currentValues, optionValue)))

\* Mutant of PreviousEnabled: the Previous button is never disabled.
PreviousAlwaysEnabled == TRUE

\* FormSection: the Previous button has disabled={currentIndex === 0}.
PreviousEnabled == currentSectionIndex # 0

\* The section index after handlePrevious.
PreviousIndex(index) == IF index > 0 THEN index - 1 ELSE index

HandlePrevious ==
  /\ View = "Ready"
  /\ PreviousEnabled
  /\ currentSectionIndex' = PreviousIndex(currentSectionIndex)
  /\ UNCHANGED <<appUser, loginVars, createPending, formData, isLoading, error,
                 formValues, formErrors, showSubmissionModal, fetchPending>>
  /\ crashed' = RenderThrows(appUser', isLoading', error', formData',
                             currentSectionIndex')

\* Mutant of NextIndex: handleNext advances without looking at isValid.
NextIndexUnvalidated(isValid, index, total) ==
  IF index < total - 1 THEN index + 1 ELSE index

\* The section index after handleNext, given validateSection's answer.
NextIndex(isValid, index, total) ==
  IF isValid /\ index < total - 1 THEN index + 1 ELSE index

\* Mutant of HandleNext: the new errors are merged into the error map
\* (setFormErrors(prev => ({ ...prev, ...newErrors }))) instead of replacing it.
HandleNextMergingErrors ==
  /\ View = "Ready"
  /\ ~IsLast
  /\ LET v == ValidateSection(formData.form, currentSectionIndex, formValues) IN
     /\ formErrors' = [id \in DOMAIN formErrors \cup DOMAIN v.newErrors |->
                         IF id \in DOMAIN v.newErrors THEN v.newErrors[id]
                         ELSE formErrors[id]]
     /\ currentSectionIndex' = NextIndex(v.isValid, currentSectionIndex, TotalSections)
  /\ UNCHANGED <<appUser, loginVars, createPending, formData, isLoading, error,
                 formValues, showSubmissionModal, fetchPending>>
  /\ crashed' = RenderThrows(appUser', isLoading', error', formData',
                             currentSectionIndex')

\* handleNext; FormSection shows the Next button when isLast is false.
HandleNext ==
  /\ View = "Ready"
  /\ ~IsLast
  /\ LET v == ValidateSection(formData.form, currentSectionIndex, formValues) IN
     /\ formErrors' = v.newErrors
     /\ currentSectionIndex' = NextIndex(v.isValid, currentSectionIndex, TotalSections)
  /\ UNCHANGED <<appUser, loginVars, createPending, formData, isLoading, error,
                 formValues, showSubmissionModal, fetchPending>>
  /\ crashed' = RenderThrows(appUser', isLoading', error', formData',
                             currentSectionIndex')

\* handleSubmit; FormSection shows the Submit button when isLast is true.
HandleSubmit ==
  /\ View = "Ready"
  /\ IsLast
  /\ LET v == ValidateSection(formData.form, currentSectionIndex, formValues) IN
     /\ formErrors' = v.newErrors
     /\ showSubmissionModal' = (IF v.isValid THEN TRUE ELSE showSubmissionModal)
  /\ UNCHANGED <<appUser, loginVars, createPending, formData, isLoading, error,
                 currentSectionIndex, formValues, fetchPending, crashed>>

\* The two close buttons of the submission modal.
CloseSubmissionModal ==
  /\ View = "Ready"
  /\ showSubmissionModal
  /\ showSubmissionModal' = FALSE
  /\ UNCHANGED <<appUser, loginVars, createPending, formData, isLoading, error,
                 currentSectionIndex, formValues, formErrors, fetchPending, crashed>>

\* The views of DynamicForm that carry a control calling onLogout.
LogoutOffered == View \in {"Failed", "Ready"}

\* App.handleLogout: the user becomes null, DynamicForm unmounts and a new
\* LoginForm mounts.
HandleLogout ==
  /\ LogoutOffered
  /\ appUser' = Null
  /\ LoginMounted
  /\ FormMounted
  /\ fetchPending' = FALSE
  /\ UNCHANGED <<createPending, crashed>>

\* The value the submission modal shows for a field.
SummaryText(field) ==
  LET value == Lookup(formValues, field.fieldId) IN
  IF IsArray(value) THEN Join(value.arr, ", ")
  ELSE IF IsBoolean(value) THEN (IF value.bool THEN "Yes" ELSE "No")
  ELSE IF Truthy(value) THEN value.str
  ELSE "-"

\* -------------------------------------------------------------------- system

Next ==
  \/ \E name \in {"rollNumber", "name"}, value \in LoginInputs :
       LoginHandleChange(name, value)
  \/ LoginHandleSubmit
  \/ \E i \in 1..MaxPending, r \in CreateUserResponses : LoginCreateUserDone(i, r)
  \/ \E o \in GetFormOutcomes : FetchFormDataDone(o)
  \/ \E sch \in Schemas : \E field \in AllFields(sch) :
       \/ \E s \in Strings \cup OptionValues(field) : FieldInputChange(field, s)
       \/ FieldCheckboxChange(field)
       \/ \E optionValue \in OptionValues(field) :
            FieldCheckboxGroupChange(field, optionValue)
  \/ HandlePrevious
  \/ HandleNext
  \/ HandleSubmit
  \/ CloseSubmissionModal
  \/ HandleLogout

Spec == Init /\ [][Next]_vars

\* ------------------------------------------------------------------- claims

\* A step that runs section validation on the current section.
ValidationStep == HandleNext \/ HandleSubmit

\* A step in which the user edits `field` through its control.
EditStep(field) ==
  \/ \E s \in Strings \cup OptionValues(field) : FieldInputChange(field, s)
  \/ FieldCheckboxChange(field)
  \/ \E optionValue \in OptionValues(field) :
       FieldCheckboxGroupChange(field, optionValue)

\* The message a required field shows: its custom message when it has a
\* non-empty one, else the default.
C1_ExpectedMessage(field) ==
  IF "validation" \in DOMAIN field /\ "message" \in DOMAIN field.validation
     /\ field.validation.message # ""
    THEN field.validation.message
    ELSE "This field is required"

\* Empty, in the words of the claim: absent, the empty string, or an empty
\* sequence.
C1_IsEmpty(values, fieldId) ==
  \/ fieldId \notin DOMAIN values
  \/ values[fieldId] = StrV("")
  \/ values[fieldId] = ArrV(<<>>)

\* C1: when Next or Submit runs on a section holding a required field whose
\* value is empty, the error map afterwards has that field's message (its
\* custom message, else "This field is required"), the section index is
\* unchanged and the summary is not opened.
C1_RequiredEmptyBlocks ==
  [][ValidationStep =>
       \A field \in Range(CurrentSection.fields) :
         (field.required /\ C1_IsEmpty(formValues, field.fieldId)) =>
           /\ field.fieldId \in DOMAIN formErrors'
           /\ formErrors'[field.fieldId] = C1_ExpectedMessage(field)
           /\ currentSectionIndex' = currentSectionIndex
           /\ showSubmissionModal' = showSubmissionModal]_vars

\* C1 witness: Submit ran on the one-section form with the required dropdown
\* and the required checkbox group both empty: both errors are shown, the
\* form stays on the section and the summary is closed.
C1_Witness ==
  /\ View = "Ready"
  /\ formData.form = SchemaOneSection
  /\ formValues["city"] = StrV("")
  /\ formValues["langs"] = ArrV(<<>>)
  /\ "city" \in DOMAIN formErrors /\ formErrors["city"] = "Please pick a city"
  /\ "langs" \in DOMAIN formErrors /\ formErrors["langs"] = "This field is required"
  /\ currentSectionIndex = 0
  /\ ~showSubmissionModal

\* The length error the original claim expects of a string of length n.
C2_ClaimedError(field, n) ==
  IF "minLength" \in DOMAIN field /\ n < field.minLength
    THEN "Minimum length is " \o ToString(field.minLength) \o " characters"
  ELSE IF "maxLength" \in DOMAIN field /\ n > field.maxLength
    THEN "Maximum length is " \o ToString(field.maxLength) \o " characters"
  ELSE ""

\* The error map has exactly this message for the field ("" for no entry).
HasError(errors, fieldId, message) ==
  IF message = "" THEN fieldId \notin DOMAIN errors
  ELSE fieldId \in DOMAIN errors /\ errors[fieldId] = message

HasLengthBound(field) ==
  "minLength" \in DOMAIN field \/ "maxLength" \in DOMAIN field

\* C2 (as stated): for every field with minLength and/or maxLength and every
\* string value, of any length from 0 up, section validation yields the
\* minimum-length error below minLength, the maximum-length error above
\* maxLength, and no error within the bounds.
C2_LengthErrorsAllStrings ==
  [][ValidationStep =>
       \A field \in Range(CurrentSection.fields) :
         (HasLengthBound(field) /\ field.fieldId \in DOMAIN formValues
            /\ IsString(formValues[field.fieldId])) =>
           HasError(formErrors', field.fieldId,
                    C2_ClaimedError(field, Len(formValues[field.fieldId].str)))]_vars

\* The error of a field holding the string of length n, as amended: the empty
\* string is never measured, and a bound of 0 is no bound.
C2_AmendedError(field, n) ==
  IF n = 0 THEN (IF field.required THEN C1_ExpectedMessage(field) ELSE "")
  ELSE IF "minLength" \in DOMAIN field /\ field.minLength > 0 /\ n < field.minLength
    THEN "Minimum length is " \o ToString(field.minLength) \o " characters"
  ELSE IF "maxLength" \in DOMAIN field /\ field.maxLength > 0 /\ n > field.maxLength
    THEN "Maximum length is " \o ToString(field.maxLength) \o " characters"
  ELSE ""

\* C2 (amended): for every field with minLength and/or maxLength and every
\* non-empty string value, section validation yields the minimum-length error
\* when minLength is not 0 and the length is below it, else the maximum-length
\* error when maxLength is not 0 and the length is above it, else no error;
\* an empty string gets the required-field error when the field is required
\* and no error otherwise.
C2_LengthErrorsNonEmpty ==
  [][ValidationStep =>
       \A field \in Range(CurrentSection.fields) :
         (HasLengthBound(field) /\ field.fieldId \in DOMAIN formValues
            /\ IsString(formValues[field.fieldId])) =>
           HasError(formErrors', field.fieldId,
                    C2_AmendedError(field, Len(formValues[field.fieldId].str)))]_vars

\* C2 witness: Next ran with "Alan" in the name field (maxLength 3).
C2_Witness ==
  /\ View = "Ready"
  /\ formData.form = SchemaTwoSections
  /\ formValues["name"] = StrV("Alan")
  /\ "name" \in DOMAIN formErrors
  /\ formErrors["name"] = "Maximum length is 3 characters"

\* C3: an edit of a field that has an error entry removes that entry,
\* whatever the new value, keeps every other error entry and changes no
\* other field's value.
C3_EditClearsOwnError ==
  [][\A sch \in Schemas : \A field \in AllFields(sch) :
       (EditStep(field) /\ field.fieldId \in DOMAIN formErrors) =>
         /\ field.fieldId \notin DOMAIN formErrors'
         /\ DOMAIN formErrors' = DOMAIN formErrors \ {field.fieldId}
         /\ \A other \in DOMAIN formErrors' : formErrors'[other] = formErrors[other]
         /\ DOMAIN formValues' = DOMAIN formValues
         /\ \A other \in DOMAIN formValues \ {field.fieldId} :
              formValues'[other] = formValues[other]]_vars

\* C3 witness: after a failed Submit showed errors for both city and langs,
\* the dropdown was set to its empty option again: its error is gone although
\* its value is still invalid, and the error of langs is still there.
C3_Witness ==
  /\ View = "Ready"
  /\ formData.form = SchemaOneSection
  /\ formValues["city"] = StrV("")
  /\ "city" \notin DOMAIN formErrors
  /\ "langs" \in DOMAIN formErrors

\* The checkbox groups of the loaded schema.
CheckboxGroups ==
  {field \in AllFields(formData.form) :
     field.type = "checkbox" /\ "options" \in DOMAIN field}

NoDuplicates(a) == \A i, j \in 1..Len(a) : a[i] = a[j] => i = j

\* The sequence after toggling optionValue twice in a row.
ToggledTwice(a, optionValue) ==
  ToggleOption(ToggleOption(a, optionValue), optionValue)

\* C4 (as stated): for every checkbox group, every reachable sequence of
\* selected values and every option value, selected or not, toggling the
\* value twice gives back the same elements in the same order; and no
\* reachable sequence holds a duplicate.
C4_DoubleToggleRestoresOrder ==
  View = "Ready" =>
    \A field \in CheckboxGroups :
      LET current == formValues[field.fieldId].arr IN
      /\ NoDuplicates(current)
      /\ \A optionValue \in OptionValues(field) :
           ToggledTwice(current, optionValue) = current

\* `a` without x, in order.
C4_Without(a, x) == SelectSeq(a, LAMBDA y : y # x)

\* C4 (amended): toggling a value twice gives back the same set of elements
\* without duplicates; the order is the same when the value was not selected
\* or was the last element, and otherwise the value has moved to the end with
\* the other elements keeping their order; and no reachable sequence holds a
\* duplicate.
C4_DoubleToggleRestoresSet ==
  View = "Ready" =>
    \A field \in CheckboxGroups :
      LET current == formValues[field.fieldId].arr IN
      /\ NoDuplicates(current)
      /\ \A optionValue \in OptionValues(field) :
           LET twice == ToggledTwice(current, optionValue) IN
           /\ Range(twice) = Range(current)
           /\ NoDuplicates(twice)
           /\ twice = (IF optionValue \in Range(current)
                         THEN C4_Without(current, optionValue) \o <<optionValue>>
                         ELSE current)
           /\ (optionValue \notin Range(current)
                 \/ current[Len(current)] = optionValue) => twice = current

\* C4 witness: chess was selected first, then golf, and chess was then
\* toggled twice: it now comes after golf.
C4_Witness ==
  /\ View = "Ready"
  /\ formData.form = SchemaTwoSections
  /\ formValues["hobbies"] = ArrV(<<"golf", "chess">>)

\* C5: Previous is enabled exactly when the section index is above 0; taking
\* it lowers the index by one and leaves the value map and the error map as
\* they were.
C5_PreviousNeverValidates ==
  /\ [](View = "Ready" => ((ENABLED HandlePrevious) <=> currentSectionIndex > 0))
  /\ [][HandlePrevious =>
          /\ currentSectionIndex' = currentSectionIndex - 1
          /\ formValues' = formValues
          /\ formErrors' = formErrors]_vars

\* C5 witness: Submit failed on the third section (email is required and
\* empty) and Previous was then taken: the form is on an earlier section, the
\* email is still empty and its error is still in the map.
C5_Witness ==
  /\ View = "Ready"
  /\ formData.form = SchemaThreeSections
  /\ currentSectionIndex < 2
  /\ formValues["email"] = StrV("")
  /\ "email" \in DOMAIN formErrors

\* The fields of the current section that fail the per-field rule.
FailingFields ==
  {field \in Range(CurrentSection.fields) : ValidateField(field, formValues) # ""}

\* C6: on a section that is not the last, Next raises the index by one iff
\* every field of the section passes the per-field rule; otherwise the index
\* stays and the error map holds the section's errors.  With the required
\* name field of minLength 2: "A" stays on index 0 with "Minimum length is 2
\* characters", "Al" moves to index 1.
C6_NextAdvancesIffValid ==
  [][HandleNext =>
       /\ (currentSectionIndex' = currentSectionIndex + 1) <=> (FailingFields = {})
       /\ FailingFields # {} =>
            /\ currentSectionIndex' = currentSectionIndex
            /\ DOMAIN formErrors' = {field.fieldId : field \in FailingFields}
            /\ \A field \in FailingFields :
                 formErrors'[field.fieldId] = ValidateField(field, formValues)
       /\ (formData.form = SchemaTwoSections /\ currentSectionIndex = 0) =>
            /\ formValues["name"] = StrV("A") =>
                 /\ currentSectionIndex' = 0
                 /\ formErrors' = [id \in {"name"} |-> "Minimum length is 2 characters"]
            /\ formValues["name"] = StrV("Al") => currentSectionIndex' = 1]_vars

\* C6 witness: with "Al" in the name field Next has moved to the second
\* section.
C6_Witness ==
  /\ View = "Ready"
  /\ formData.form = SchemaTwoSections
  /\ formValues["name"] = StrV("Al")
  /\ currentSectionIndex = 1
  /\ formErrors = EmptyObject

\* The text the claim expects the summary to show for a value.
C7_ClaimedText(value) ==
  IF value = Undefined THEN "-"
  ELSE IF IsArray(value)
    THEN (IF value.arr = <<>> THEN "-" ELSE Join(value.arr, ", "))
  ELSE IF IsBoolean(value) THEN (IF value.bool THEN "Yes" ELSE "No")
  ELSE IF value.str = "" THEN "-"
  ELSE value.str

\* C7: Submit is offered only on the last section, and the open summary shows
\* every field's current value: a sequence joined by comma, a boolean as
\* Yes/No, an empty or undefined value, the empty sequence included, as "-".
C7_SummaryFormat ==
  View = "Ready" =>
    /\ (ENABLED HandleSubmit) => currentSectionIndex = TotalSections - 1
    /\ showSubmissionModal =>
         \A field \in AllFields(formData.form) :
           SummaryText(field) = C7_ClaimedText(Lookup(formValues, field.fieldId))

\* C8: a completed create-user call with both login fields non-blank: success
\* moves to the form with the submitted identity; a not-ok response stays on
\* the login form with the server's message; a thrown transport failure stays
\* there with the generic retry message; the pending flag is cleared in every
\* case.
C8_LoginOutcomes ==
  [][\A i \in 1..MaxPending, r \in CreateUserResponses :
       (View = "Login" /\ LoginCreateUserDone(i, r)) =>
         /\ (r.kind = "response" /\ r.ok) =>
              appUser' = createPending[i].user /\ View' = "Loading"
         /\ (r.kind = "response" /\ ~r.ok) =>
              /\ View' = "Login"
              /\ "message" \in DOMAIN r.data => loginError' = r.data.message
         /\ r.kind = "throws" =>
              /\ View' = "Login"
              /\ loginError' = "An error occurred during login. Please try again."
         /\ loginIsLoading' = FALSE]_vars

\* C9: at most one create-user call is outstanding; while one is, the login
\* form is shown with its pending flag set and a submit cannot start; the
\* flag is clear again once no call is outstanding.
C9_SingleOutstandingRequest ==
  /\ Len(createPending) <= 1
  /\ createPending # <<>> =>
       /\ View = "Login"
       /\ loginIsLoading
       /\ ~ENABLED LoginHandleSubmit
  /\ (View = "Login" /\ createPending = <<>>) => ~loginIsLoading

\* C9 witness: a create-user call is in flight.
C9_Witness ==
  /\ Len(createPending) = 1
  /\ loginIsLoading
  /\ loginUser # createPending[1].user

\* The state of the orchestrator's state machine, from its state variables.
OrchestratorState ==
  IF appUser = Null THEN "Unmounted"
  ELSE IF isLoading THEN "Loading"
  ELSE IF error # NullString THEN "Failed"
  ELSE "Ready"

\* The value map the claim expects after a successful fetch.
C10_ExpectedValues(schema) ==
  [id \in {field.fieldId : field \in AllFields(schema)} |->
     LET field == CHOOSE f \in AllFields(schema) : f.fieldId = id IN
     IF field.type = "checkbox"
       THEN (IF "options" \in DOMAIN field THEN ArrV(<<>>) ELSE BoolV(FALSE))
       ELSE StrV("")]

\* A get-form outcome that is a successful fetch of a schema.
C10_IsSchema(o) == o.kind = "response" /\ o.ok /\ "form" \in DOMAIN o.data

\* A step of one of the form's controls other than logout.
FormControlStep ==
  \/ \E sch \in Schemas : \E field \in AllFields(sch) : EditStep(field)
  \/ HandlePrevious
  \/ HandleNext
  \/ HandleSubmit
  \/ CloseSubmissionModal

\* C10: the orchestrator is mounted in Loading and leaves it only when the
\* fetch completes: to Ready on success, with the type-appropriate empty
\* value for every fieldId, index 0 and no errors, and to Failed on any fetch
\* error.  In Failed no form control is available, logout is, every step is
\* a logout, and logout shows the login form with user, schema, values,
\* errors and index reset.
C10_LoadingReadyFailed ==
  /\ [][(appUser = Null /\ appUser' # Null) =>
          (OrchestratorState' = "Loading" /\ fetchPending')]_vars
  /\ [][(OrchestratorState = "Loading" /\ OrchestratorState' # "Loading") =>
          \E o \in GetFormOutcomes :
            /\ FetchFormDataDone(o)
            /\ IF C10_IsSchema(o)
                 THEN /\ OrchestratorState' = "Ready"
                      /\ formData' = o.data
                      /\ formValues' = C10_ExpectedValues(o.data.form)
                      /\ currentSectionIndex' = 0
                      /\ formErrors' = EmptyObject
                 ELSE OrchestratorState' = "Failed"]_vars
  /\ [](OrchestratorState = "Failed" =>
          /\ View = "Failed"
          /\ ~ENABLED FormControlStep
          /\ ENABLED HandleLogout)
  /\ [][OrchestratorState = "Failed" => HandleLogout]_vars
  /\ [][HandleLogout =>
          /\ View' = "Login"
          /\ appUser' = Null
          /\ formData' = Null
          /\ formValues' = EmptyObject
          /\ formErrors' = EmptyObject
          /\ currentSectionIndex' = 0]_vars

\* C10 witness: the fetch answered with a body that has no form; the body
\* is stored but the orchestrator is Failed.
C10_Witness ==
  /\ OrchestratorState = "Failed"
  /\ formData = MalformedFormResponse
  /\ error = FailedToLoadMessage

\* The error map the claim expects after validating the current section: the
\* failing fields of the section, each with its message.
C11_ExpectedErrors ==
  [id \in {field.fieldId : field \in FailingFields} |->
     LET field == CHOOSE f \in FailingFields : f.fieldId = id IN
     ValidateField(field, formValues)]

\* C11: after every section validation, from Next or from Submit, the error
\* map is exactly the failing fields of the validated section with their
\* messages (no entry of another section, none of a passing field), the
\* validation answers true iff that map is empty (Next then moves on when
\* there is a next section, Submit then opens the summary), and no other
\* step adds or changes an entry.
C11_ValidationReplacesErrorMap ==
  /\ [][ValidationStep =>
          /\ formErrors' = C11_ExpectedErrors
          /\ DOMAIN formErrors'
               \subseteq {field.fieldId : field \in Range(CurrentSection.fields)}
          /\ ValidateSection(formData.form, currentSectionIndex, formValues).isValid
               <=> (formErrors' = EmptyObject)]_vars
  /\ [][HandleNext =>
          ((currentSectionIndex' = currentSectionIndex + 1)
             <=> (formErrors' = EmptyObject))]_vars
  /\ [][HandleSubmit =>
          /\ formErrors' = EmptyObject => showSubmissionModal'
          /\ formErrors' # EmptyObject => showSubmissionModal' = showSubmissionModal]_vars
  /\ [][~ValidationStep =>
          \A id \in DOMAIN formErrors' :
            id \in DOMAIN formErrors /\ formErrors'[id] = formErrors[id]]_vars

\* C11 witness: Submit ran on the one-section form with a too short nickname,
\* a chosen city and no language: the map holds the two failing fields and
\* not the passing one.
C11_Witness ==
  /\ View = "Ready"
  /\ formData.form = SchemaOneSection
  /\ formValues["nick"] = StrV("A")
  /\ formValues["city"] = StrV("Pune")
  /\ formValues["langs"] = ArrV(<<>>)
  /\ formErrors = [id \in {"nick", "langs"} |->
                     IF id = "nick" THEN "Minimum length is 2 characters"
                     ELSE "This field is required"]
  /\ ~showSubmissionModal

\* C12: in every Ready state the section index is within
\* 0..sectionCount-1 and the current section is a section of the schema, for
\* every schema the fetch returns, one with an empty section list included.
C12_IndexWithinSections ==
  OrchestratorState = "Ready" =>
    /\ formData # Null
    /\ 0 <= currentSectionIndex
    /\ currentSectionIndex <= Len(formData.form.sections) - 1
    /\ \E i \in 1..Len(formData.form.sections) :
         i = currentSectionIndex + 1
    /\ ~crashed

\* The type-appropriate empty value of the data model.
C13_EmptyValue(field) ==
  IF field.type = "checkbox"
    THEN (IF "options" \in DOMAIN field THEN ArrV(<<>>) ELSE BoolV(FALSE))
    ELSE StrV("")

\* C13: the value the section controller hands to the field renderer is the
\* field's entry of the value map when there is one, else the
\* type-appropriate empty value; a dropdown or radio field storing the empty
\* string is displayed with the empty string.
C13_DisplayedValueIsStoredValue ==
  View = "Ready" =>
    \A field \in Range(CurrentSection.fields) :
      DisplayValue(field) =
        (IF field.fieldId \in DOMAIN formValues
           THEN formValues[field.fieldId]
           ELSE C13_EmptyValue(field))

====
